---- MODULE Spec2Model ----
(***************************************************************************)
(* Model of the PII detection-and-redaction engine of pdf-redactor         *)
(* (python_server/pdf_redactor.py) and of the pipeline that drives it.     *)
(*                                                                         *)
(* Text is a sequence of one-character strings.  Offsets are 0-based as in *)
(* Python: offset p lies between text[p] and text[p+1] of the 1-based TLA+ *)
(* sequence.  Confidences are scaled by 100 (1.0 -> 100, 0.95 -> 95).      *)
(* Coordinates are integer points; every span of the modelled documents is *)
(* monospaced (its width is a multiple of its length), so that the float   *)
(* division of _get_match_bbox is exact.                                   *)
(***************************************************************************)
EXTENDS Integers, Sequences, FiniteSets, TLC

(***************************************************************************)
(* Characters and character classes of Python's re module (ASCII).         *)
(***************************************************************************)
LowerSeq ==
    <<"a","b","c","d","e","f","g","h","i","j","k","l","m",
      "n","o","p","q","r","s","t","u","v","w","x","y","z">>

UpperSeq ==
    <<"A","B","C","D","E","F","G","H","I","J","K","L","M",
      "N","O","P","Q","R","S","T","U","V","W","X","Y","Z">>

Range(s) == { s[i] : i \in DOMAIN s }

Digits == {"0","1","2","3","4","5","6","7","8","9"}

Letters == Range(LowerSeq) \cup Range(UpperSeq)

WordChars == Letters \cup Digits \cup {"_"}

Whitespace == {" ", "\t", "\n"}

Max(S) == CHOOSE x \in S : \A y \in S : y <= x

Min(S) == CHOOSE x \in S : \A y \in S : x <= y

\* str.lower() on one character
LowerChar(c) ==
    IF \E i \in DOMAIN UpperSeq : UpperSeq[i] = c
    THEN LowerSeq[CHOOSE i \in DOMAIN UpperSeq : UpperSeq[i] = c]
    ELSE c

\* str.lower()
Lower(text) == [i \in DOMAIN text |-> LowerChar(text[i])]

\* text[a:b] for 0 <= a <= b <= len(text)
Slice(text, a, b) == [i \in 1..(b - a) |-> text[a + i]]

\* needle in hay
Contains(hay, needle) ==
    \E i \in 0..(Len(hay) - Len(needle)) :
        \A j \in 1..Len(needle) : hay[i + j] = needle[j]

(***************************************************************************)
(* Regular expressions.  A pattern is a sequence of atoms; an atom is the  *)
(* zero-width assertion \b or a character class repeated min..max times    *)
(* (max = -1: unbounded), matched greedily with backtracking.              *)
(***************************************************************************)
B == [cls |-> "b", ch |-> "", min |-> 0, max |-> 0]

Lit(c) == [cls |-> "lit", ch |-> c, min |-> 1, max |-> 1]

Cls(k, lo, hi) == [cls |-> k, ch |-> "", min |-> lo, max |-> hi]

D(n) == Cls("d", n, n)

InClass(a, c) ==
    CASE a.cls = "lit"    -> c = a.ch
      [] a.cls = "d"      -> c \in Digits
      [] a.cls = "s"      -> c \in Whitespace
      [] a.cls = "sep"    -> c \in Whitespace \cup {"-"}
      [] a.cls = "local"  -> c \in Letters \cup Digits \cup {".", "_", "%", "+", "-"}
      [] a.cls = "domain" -> c \in Letters \cup Digits \cup {".", "-"}
      [] a.cls = "tld"    -> c \in Letters \cup {"|"}
      [] OTHER            -> FALSE

IsWordAt(text, i) == i >= 1 /\ i <= Len(text) /\ text[i] \in WordChars

\* \b at offset pos
IsBoundary(text, pos) == IsWordAt(text, pos) # IsWordAt(text, pos + 1)

\* the longest run of characters of the atom's class from pos (at most max)
RunLen(a, text, pos) ==
    LET cap == IF a.max = -1 THEN Len(text) - pos
               ELSE Min({a.max, Len(text) - pos})
    IN  Max({ n \in 0..cap : \A j \in 1..n : InClass(a, text[pos + j]) })

\* re's match of atoms k.. of pat at offset pos: the end offset, or -1
RECURSIVE MatchFrom(_, _, _, _)
MatchFrom(pat, k, text, pos) ==
    IF k > Len(pat) THEN pos
    ELSE LET a == pat[k] IN
         IF a.cls = "b"
         THEN IF IsBoundary(text, pos) THEN MatchFrom(pat, k + 1, text, pos) ELSE -1
         ELSE LET run == RunLen(a, text, pos)
                  ok  == { n \in a.min..run : MatchFrom(pat, k + 1, text, pos + n) # -1 }
              IN  IF ok = {} THEN -1
                  ELSE MatchFrom(pat, k + 1, text, pos + Max(ok))

\* pattern.finditer(text): leftmost, non-overlapping matches as [start, end)
RECURSIVE FindIterFrom(_, _, _)
FindIterFrom(pat, text, pos) ==
    IF pos > Len(text) THEN << >>
    ELSE LET e == MatchFrom(pat, 1, text, pos) IN
         IF e = -1 THEN FindIterFrom(pat, text, pos + 1)
         ELSE <<[start |-> pos, end |-> e]>>
              \o FindIterFrom(pat, text, IF e = pos THEN pos + 1 ELSE e)

FindIter(pat, text) == FindIterFrom(pat, text, 0)

\* pattern.search(text) is not None
Search(pat, text) == \E pos \in 0..Len(text) : MatchFrom(pat, 1, text, pos) # -1

(***************************************************************************)
(* The engine: PDFRedactor.__init__ builds the pattern tables once.        *)
(***************************************************************************)
EMAIL == "email"

SSN == "ssn"

PHONE == "phone"

CREDIT_CARD == "credit_card"

RedactionType == {EMAIL, SSN, PHONE, CREDIT_CARD}

S1 == Cls("s", 1, 1)

OptSep == Cls("sep", 0, 1)

EmailPattern ==
    <<B, Cls("local", 1, -1), Lit("@"), Cls("domain", 1, -1), Lit("."), Cls("tld", 2, -1), B>>

SsnPatterns ==
    << <<B, D(3), Lit("-"), D(2), Lit("-"), D(4), B>>,
       <<B, D(9), B>>,
       <<B, D(3), S1, D(2), S1, D(4), B>> >>

PhonePatterns ==
    << <<B, D(3), Lit("-"), D(3), Lit("-"), D(4), B>>,
       <<B, Lit("("), D(3), Lit(")"), S1, D(3), Lit("-"), D(4), B>>,
       <<B, D(10), B>> >>

CreditCardPatterns ==
    << <<B, D(4), OptSep, D(4), OptSep, D(4), OptSep, D(4), B>>,
       <<B, D(4), S1, D(4), S1, D(4), S1, D(4), B>> >>

FalsePositivePatterns ==
    << <<B, D(3), Lit("-"), D(2), Lit("-"), D(3), B>>,
       <<B, Cls("d", 1, 2), Lit("-"), Cls("d", 1, 2), Lit("-"), D(4), B>> >>

\* the state of a PDFRedactor after __init__
NewRedactor ==
    [patterns |-> [email       |-> <<EmailPattern>>,
                   ssn         |-> SsnPatterns,
                   phone       |-> PhonePatterns,
                   credit_card |-> CreditCardPatterns],
     false_positive_patterns |-> FalsePositivePatterns]

\* the keyword list of _is_false_positive
false_positive_indicators ==
    { 
      <<"p","a","r","t"," ","n","u","m","b","e","r">>,
      <<"p","a","r","t"," ","#">>,
      <<"s","e","r","i","a","l"," ","n","u","m","b","e","r">>,
      <<"s","e","r","i","a","l"," ","#">>,
      <<"m","o","d","e","l"," ","n","u","m","b","e","r">>,
      <<"m","o","d","e","l"," ","#">>,
      <<"r","e","f","e","r","e","n","c","e"," ","n","u","m","b","e","r">>,
      <<"r","e","f"," ","#">>,
      <<"d","a","t","e">>,
      <<"b","i","r","t","h">>,
      <<"d","o","b">> }

ContextChars == 20

EmailConfidence == 100

SsnConfidence == 95

PhoneConfidence == 90

CreditCardConfidence == 85

Confidence(type) ==
    CASE type = EMAIL       -> EmailConfidence
      [] type = SSN         -> SsnConfidence
      [] type = PHONE       -> PhoneConfidence
      [] type = CREDIT_CARD -> CreditCardConfidence

(***************************************************************************)
(* Rectangles (fitz.Rect).                                                 *)
(***************************************************************************)
Rect(a, b, c, d) == [x0 |-> a, y0 |-> b, x1 |-> c, y1 |-> d]

RectIsEmpty(r) == r.x0 >= r.x1 \/ r.y0 >= r.y1

\* Rect.intersects: the intersection is not empty
Intersects(r, q) ==
    /\ ~RectIsEmpty(r)
    /\ ~RectIsEmpty(q)
    /\ Max({r.x0, q.x0}) < Min({r.x1, q.x1})
    /\ Max({r.y0, q.y0}) < Min({r.y1, q.y1})

\* Rect + (a, b, c, d): fitz adds component by component
RectAdd(r, t) == Rect(r.x0 + t[1], r.y0 + t[2], r.x1 + t[3], r.y1 + t[4])

(***************************************************************************)
(* Span scanning.                                                          *)
(***************************************************************************)
\* _get_context
GetContext(text, start, end) ==
    Slice(text, Max({0, start - ContextChars}), Min({Len(text), end + ContextChars}))

\* _is_false_positive(text, context)
IsFalsePositive(self, text, context) ==
    \/ \E i \in DOMAIN self.false_positive_patterns :
           Search(self.false_positive_patterns[i], text)
    \/ \E indicator \in false_positive_indicators :
           Contains(Lower(context), indicator)

\* _get_match_bbox: [ok |-> FALSE] stands for None
GetMatchBbox(m, span_bbox, text) ==
    IF m.start >= Len(text) \/ m.end > Len(text)
    THEN [ok |-> FALSE, rect |-> Rect(0, 0, 0, 0)]
    ELSE LET span_width == span_bbox.x1 - span_bbox.x0
             char_width == span_width \div Max({Len(text), 1})
             x0 == span_bbox.x0 + (m.start * char_width)
             x1 == span_bbox.x0 + (m.end * char_width)
             y0 == span_bbox.y0
             y1 == span_bbox.y1
         IN  IF x0 >= x1 \/ y0 >= y1
             THEN [ok |-> FALSE, rect |-> Rect(0, 0, 0, 0)]
             ELSE [ok |-> TRUE, rect |-> Rect(x0, y0, x1, y1)]

\* every regex hit of one type in a span, pattern after pattern
RECURSIVE HitsOf(_, _, _)
HitsOf(pats, k, text) ==
    IF k > Len(pats) THEN << >>
    ELSE FindIter(pats[k], text) \o HitsOf(pats, k + 1, text)

\* Candidate with pages counted from 1
CandidateOneBased(self, type, m, text, bbox, page_num) ==
    LET group == Slice(text, m.start, m.end)
        loc   == GetMatchBbox(m, bbox, text)
    IN  [text        |-> group,
         type        |-> type,
         page_number |-> page_num + 1,
         bbox        |-> loc.rect,
         confidence  |-> Confidence(type),
         context     |-> GetContext(text, m.start, m.end),
         start       |-> m.start,
         span_text   |-> text,
         filtered    |-> (type = SSN /\ IsFalsePositive(self, group, text)),
         mapped      |-> loc.ok]

\* one regex hit as the code treats it: `filtered` when _is_false_positive
\* rejects it (the code asks only for SSN hits, and passes the whole span
\* text as context), `mapped` when _get_match_bbox returns a rectangle
Candidate(self, type, m, text, bbox, page_num) ==
    LET group == Slice(text, m.start, m.end)
        loc   == GetMatchBbox(m, bbox, text)
    IN  [text        |-> group,
         type        |-> type,
         page_number |-> page_num,
         bbox        |-> loc.rect,
         confidence  |-> Confidence(type),
         context     |-> GetContext(text, m.start, m.end),
         start       |-> m.start,
         span_text   |-> text,
         filtered    |-> (type = SSN /\ IsFalsePositive(self, group, text)),
         mapped      |-> loc.ok]

CandidatesOfType(self, type, text, bbox, page_num) ==
    LET hits == HitsOf(self.patterns[type], 1, text)
    IN  [i \in DOMAIN hits |-> Candidate(self, type, hits[i], text, bbox, page_num)]

\* all regex hits of a span in the order _detect_pii_in_span visits them
Candidates(self, text, bbox, page_num) ==
    CandidatesOfType(self, EMAIL, text, bbox, page_num)
    \o CandidatesOfType(self, SSN, text, bbox, page_num)
    \o CandidatesOfType(self, PHONE, text, bbox, page_num)
    \o CandidatesOfType(self, CREDIT_CARD, text, bbox, page_num)

Appended(c) == ~c.filtered /\ c.mapped

\* the PIIMatch built from a hit (ord: its place in scan order, set by the caller)
PIIMatch(c) ==
    [text        |-> c.text,
     type        |-> c.type,
     page_number |-> c.page_number,
     bbox        |-> c.bbox,
     confidence  |-> c.confidence,
     context     |-> c.context,
     ord         |-> 0]

\* _detect_pii_in_span
DetectPiiInSpan(self, text, bbox, page_num) ==
    LET kept == SelectSeq(Candidates(self, text, bbox, page_num), Appended)
    IN  [i \in DOMAIN kept |-> PIIMatch(kept[i])]

(***************************************************************************)
(* Deduplication (_deduplicate_matches).                                   *)
(***************************************************************************)
\* KeyLess with the confidence left out of the key
KeyLessByPage(a, b) ==
    \/ a.page_number < b.page_number
    \/ a.page_number = b.page_number /\ a.bbox.x0 < b.bbox.x0

\* the sort key (-confidence, page_number, bbox.x0), compared as tuples
KeyLess(a, b) ==
    \/ a.confidence > b.confidence
    \/ a.confidence = b.confidence /\ a.page_number < b.page_number
    \/ a.confidence = b.confidence /\ a.page_number = b.page_number
       /\ a.bbox.x0 < b.bbox.x0

\* Insert that puts m in front of the elements with an equal key
InsertBeforeEqual(sorted, m) ==
    LET later == { i \in DOMAIN sorted : ~KeyLess(sorted[i], m) }
        at    == IF later = {} THEN Len(sorted) + 1 ELSE Min(later)
    IN  SubSeq(sorted, 1, at - 1) \o <<m>> \o SubSeq(sorted, at, Len(sorted))

\* m put behind every element whose key is not greater: list.sort is stable
Insert(sorted, m) ==
    LET later == { i \in DOMAIN sorted : KeyLess(m, sorted[i]) }
        at    == IF later = {} THEN Len(sorted) + 1 ELSE Min(later)
    IN  SubSeq(sorted, 1, at - 1) \o <<m>> \o SubSeq(sorted, at, Len(sorted))

\* SortMatches with the sort left out
SortMatchesSkipped(matches) == matches

RECURSIVE SortMatches(_)
SortMatches(matches) ==
    IF matches = << >> THEN << >>
    ELSE Insert(SortMatches(SubSeq(matches, 1, Len(matches) - 1)), matches[Len(matches)])

\* IsOverlapping with the page test inverted
IsOverlappingOtherPage(match, unique_matches) ==
    \E j \in DOMAIN unique_matches :
        /\ match.page_number # unique_matches[j].page_number
        /\ Intersects(match.bbox, unique_matches[j].bbox)

\* IsOverlapping without the page test
IsOverlappingAnyPage(match, unique_matches) ==
    \E j \in DOMAIN unique_matches :
        Intersects(match.bbox, unique_matches[j].bbox)

\* the test of the walk: does the candidate overlap an accepted match?
IsOverlapping(match, unique_matches) ==
    \E j \in DOMAIN unique_matches :
        /\ match.page_number = unique_matches[j].page_number
        /\ Intersects(match.bbox, unique_matches[j].bbox)

\* SeenText without .lower() on the candidate
SeenTextCaseSensitive(match, seen_texts) == match.text \in seen_texts

\* the test of the walk: was the candidate's text accepted before?
SeenText(match, seen_texts) == Lower(match.text) \in seen_texts

RECURSIVE DedupWalk(_, _, _, _)
DedupWalk(sorted, i, unique_matches, seen_texts) ==
    IF i > Len(sorted) THEN unique_matches
    ELSE LET match == sorted[i] IN
         IF SeenText(match, seen_texts)
         THEN DedupWalk(sorted, i + 1, unique_matches, seen_texts)
         ELSE IF IsOverlapping(match, unique_matches)
         THEN DedupWalk(sorted, i + 1, unique_matches, seen_texts)
         ELSE DedupWalk(sorted, i + 1, Append(unique_matches, match),
                        seen_texts \cup {Lower(match.text)})

DeduplicateMatches(matches) ==
    IF matches = << >> THEN << >>
    ELSE DedupWalk(SortMatches(matches), 1, << >>, {})

\* CountMatchesByType that sets 1 instead of adding 1
CountMatchesByTypeOnce(matches) ==
    [ty \in { matches[i].type : i \in DOMAIN matches } |-> 1]

\* _count_matches_by_type: a dict with a key for every type that occurs
CountMatchesByType(matches) ==
    [ty \in { matches[i].type : i \in DOMAIN matches } |->
        Cardinality({ i \in DOMAIN matches : matches[i].type = ty })]

(***************************************************************************)
(* Redaction planning (create_redaction_plan).                             *)
(***************************************************************************)
Margin == 2

\* GetReplacementText with one label for every type
GetReplacementTextGeneric(pii_type) == "[REDACTED]"

\* _get_replacement_text
GetReplacementText(pii_type) ==
    CASE pii_type = EMAIL       -> "[EMAIL REDACTED]"
      [] pii_type = SSN         -> "[SSN REDACTED]"
      [] pii_type = PHONE       -> "[PHONE REDACTED]"
      [] pii_type = CREDIT_CARD -> "[CREDIT CARD REDACTED]"
      [] OTHER                  -> "[REDACTED]"

\* match.bbox + (2, 2, 2, 2)
ExpandedBbox(bbox) == RectAdd(bbox, <<Margin, Margin, Margin, Margin>>)

RedactionRectangle(match) ==
    [page_number      |-> match.page_number,
     bbox             |-> ExpandedBbox(match.bbox),
     pii_type         |-> match.type,
     original_text    |-> match.text,
     replacement_text |-> GetReplacementText(match.type)]

\* CreateRedactionPlan that stamps every document, matches or not
CreateRedactionPlanWithStamp(pii_matches) ==
    <<[page_number      |-> 0,
       bbox             |-> Rect(0, 0, Margin, Margin),
       pii_type         |-> "none",
       original_text    |-> << >>,
       replacement_text |-> "[REDACTED]"]>>
    \o [i \in DOMAIN pii_matches |-> RedactionRectangle(pii_matches[i])]

CreateRedactionPlan(pii_matches) ==
    [i \in DOMAIN pii_matches |-> RedactionRectangle(pii_matches[i])]

(***************************************************************************)
(* The document toolkit (fitz) as the engine uses it.  A page is the       *)
(* sequence of its text spans [text, bbox]; glyphs are laid out at uniform *)
(* width inside the span's bbox.                                           *)
(***************************************************************************)
\* the characters of a replacement label, as stamped on the page
LabelChars(label) ==
    CASE label = "[EMAIL REDACTED]"       -> <<"[","E","M","A","I","L"," ","R","E","D","A","C","T","E","D","]">>
      [] label = "[SSN REDACTED]"         -> <<"[","S","S","N"," ","R","E","D","A","C","T","E","D","]">>
      [] label = "[PHONE REDACTED]"       -> <<"[","P","H","O","N","E"," ","R","E","D","A","C","T","E","D","]">>
      [] label = "[CREDIT CARD REDACTED]" -> <<"[","C","R","E","D","I","T"," ","C","A","R","D"," ","R","E","D","A","C","T","E","D","]">>
      [] OTHER                            -> <<"[","R","E","D","A","C","T","E","D","]">>

\* the cell of the i-th glyph of a span
GlyphBox(span, i) ==
    LET w == (span.bbox.x1 - span.bbox.x0) \div Max({Len(span.text), 1})
    IN  Rect(span.bbox.x0 + (i - 1) * w, span.bbox.y0, span.bbox.x0 + i * w, span.bbox.y1)

\* a glyph survives apply_redactions when its cell meets no redaction annotation
Survives(span, i, annots) ==
    \A k \in DOMAIN annots : ~Intersects(GlyphBox(span, i), annots[k].bbox)

\* the runs of surviving glyphs of a span, left to right, each a span of its own
RECURSIVE SurvivingRuns(_, _, _)
SurvivingRuns(span, from, annots) ==
    LET alive == { i \in from..Len(span.text) : Survives(span, i, annots) }
    IN  IF alive = {} THEN << >>
        ELSE LET a == Min(alive)
                 b == Max({ j \in a..Len(span.text) : \A i \in a..j : i \in alive })
             IN  <<[text |-> Slice(span.text, a - 1, b),
                    bbox |-> Rect(GlyphBox(span, a).x0, span.bbox.y0,
                                  GlyphBox(span, b).x1, span.bbox.y1)]>>
                 \o SurvivingRuns(span, b + 1, annots)

RECURSIVE FlattenSpans(_)
FlattenSpans(seqs) ==
    IF seqs = << >> THEN << >>
    ELSE seqs[1] \o FlattenSpans(SubSeq(seqs, 2, Len(seqs)))

\* page.add_redact_annot for every rectangle of the page, then
\* page.apply_redactions(): the text under the annotations is removed and
\* the replacement labels are stamped
ApplyRedactions(page, annots) ==
    FlattenSpans([k \in DOMAIN page |-> SurvivingRuns(page[k], 1, annots)])
    \o [k \in DOMAIN annots |->
          [text |-> LabelChars(annots[k].replacement_text), bbox |-> annots[k].bbox]]

\* [r for r in redaction_rectangles if r.page_number == page_num]
OnPage(r, page_num) == r.page_number = page_num

PageRedactions(redaction_rectangles, page_num) ==
    LET P(r) == OnPage(r, page_num) IN SelectSeq(redaction_rectangles, P)

(***************************************************************************)
(* detect_pii_with_coordinates as a function of the document.              *)
(***************************************************************************)
\* the regex hits of one page, span after span
RECURSIVE ScanSpans(_, _, _, _)
ScanSpans(self, page, k, page_num) ==
    IF k > Len(page) THEN << >>
    ELSE Candidates(self, page[k].text, page[k].bbox, page_num)
         \o ScanSpans(self, page, k + 1, page_num)

ScanPage(self, page, page_num) == ScanSpans(self, page, 1, page_num)

\* the matches the page loop appends for one page, numbered in scan order
PageMatches(self, page, page_num, sofar) ==
    LET kept == SelectSeq(ScanPage(self, page, page_num), Appended)
    IN  [i \in DOMAIN kept |-> [PIIMatch(kept[i]) EXCEPT !.ord = sofar + i]]

RECURSIVE ScanPages(_, _, _, _)
ScanPages(self, pages, p, sofar) ==
    IF p > Len(pages) THEN sofar
    ELSE ScanPages(self, pages, p + 1,
                   sofar \o PageMatches(self, pages[p], p - 1, Len(sofar)))

Metadata(total_pages, pii_matches) ==
    [total_pages     |-> total_pages,
     total_matches   |-> Len(pii_matches),
     matches_by_type |-> CountMatchesByType(pii_matches)]

NoMetadata == [total_pages |-> 0, total_matches |-> 0, matches_by_type |-> << >>]

\* fitz.open succeeds on the file
Opens(doc) == doc.kind \in {"pdf", "encrypted"}

\* NeedsPass with the encryption check left out
NeedsPassIgnored(doc) == FALSE

\* doc.needs_pass
NeedsPass(doc) == doc.kind = "encrypted"

\* the whole call: raised (error) or (pii_matches, metadata)
Detect(self, doc) ==
    IF ~Opens(doc) \/ NeedsPass(doc)
    THEN [error |-> TRUE, pii_matches |-> << >>, metadata |-> NoMetadata]
    ELSE LET found == DeduplicateMatches(ScanPages(self, doc.pages, 1, << >>))
         IN  [error |-> FALSE, pii_matches |-> found,
              metadata |-> Metadata(Len(doc.pages), found)]

(***************************************************************************)
(* get_redaction_summary.  Confidences are in hundredths (0.9 is 90).      *)
(***************************************************************************)
HighAbove == 90

MediumAbove == 70

\* ConfidenceBucket with the boundaries counted to the upper bucket
ConfidenceBucketInclusive(confidence) ==
    IF confidence >= HighAbove THEN "high"
    ELSE IF confidence >= MediumAbove THEN "medium"
    ELSE "low"

\* if match.confidence > 0.9 ... elif match.confidence > 0.7 ... else
ConfidenceBucket(confidence) ==
    IF confidence > HighAbove THEN "high"
    ELSE IF confidence > MediumAbove THEN "medium"
    ELSE "low"

\* summary["redactions_by_type"]: a count for every match.type.value met
RedactionsByType(pii_matches) ==
    [pii_type \in { pii_matches[i].type : i \in DOMAIN pii_matches } |->
        Cardinality({ i \in DOMAIN pii_matches : pii_matches[i].type = pii_type })]

\* summary["redactions_by_page"]: a count for every match.page_number met
RedactionsByPage(pii_matches) ==
    [page \in { pii_matches[i].page_number : i \in DOMAIN pii_matches } |->
        Cardinality({ i \in DOMAIN pii_matches : pii_matches[i].page_number = page })]

GetRedactionSummary(pii_matches) ==
    LET Bucket(m)    == ConfidenceBucket(m.confidence)
        InBucket(b)  == Cardinality({ i \in DOMAIN pii_matches : Bucket(pii_matches[i]) = b })
    IN  [made               |-> TRUE,
         total_redactions   |-> Len(pii_matches),
         redactions_by_type |-> RedactionsByType(pii_matches),
         redactions_by_page |-> RedactionsByPage(pii_matches),
         confidence_stats   |-> [high   |-> InBucket("high"),
                                 medium |-> InBucket("medium"),
                                 low    |-> InBucket("low")]]

NoSummary ==
    [made               |-> FALSE,
     total_redactions   |-> 0,
     redactions_by_type |-> << >>,
     redactions_by_page |-> << >>,
     confidence_stats   |-> [high |-> 0, medium |-> 0, low |-> 0]]

(***************************************************************************)
(* PDFParser: extract_text_from_pdf and parse_pdf.  Of the parse result    *)
(* the model keeps the fields the stored status is computed from.          *)
(***************************************************************************)
\* page.get_text(): the text of the page, a line per span
RECURSIVE GetText(_, _)
GetText(page, k) ==
    IF k > Len(page) THEN << >>
    ELSE page[k].text \o <<"\n">> \o GetText(page, k + 1)

\* text += page_text + "\n" for every page whose text is not empty
RECURSIVE ExtractText(_, _)
ExtractText(pages, p) ==
    IF p > Len(pages) THEN << >>
    ELSE LET page_text == GetText(pages[p], 1)
         IN  (IF page_text # << >> THEN page_text \o <<"\n">> ELSE << >>)
             \o ExtractText(pages, p + 1)

\* str.strip()
Strip(text) ==
    LET inked == { i \in DOMAIN text : text[i] \notin Whitespace }
    IN  IF inked = {} THEN << >> ELSE Slice(text, Min(inked) - 1, Max(inked))

\* (success, text, error_message); error "" stands for None
ExtractTextFromPdf(doc) ==
    IF ~Opens(doc) \/ NeedsPass(doc)
    THEN [success |-> FALSE, text |-> << >>, error |-> "Error extracting text from PDF"]
    ELSE LET text == ExtractText(doc.pages, 1)
         IN  IF Strip(text) # << >>
             THEN [success |-> TRUE, text |-> text, error |-> ""]
             ELSE [success |-> FALSE, text |-> << >>,
                   error |-> "No text could be extracted from PDF"]

ParsePdf(doc) ==
    LET extracted == ExtractTextFromPdf(doc)
    IN  IF ~extracted.success
        THEN [status |-> "FAILED", error |-> extracted.error,
              text_length |-> 0, pages_processed |-> 0]
        ELSE [status |-> "SUCCESS", error |-> "",
              text_length |-> Len(extracted.text), pages_processed |-> Len(doc.pages)]

NoParse == [status |-> "NONE", error |-> "", text_length |-> 0, pages_processed |-> 0]

(***************************************************************************)
(* process_pdf_background: the PDFProcessingResult it stores.              *)
(***************************************************************************)
\* file_storage.get_redacted_file_path: FileStorageService defines no such
\* method, the call raises AttributeError
HasGetRedactedFilePath == FALSE

\* the result built after detect (and redact) returned
ProcessingResult(parse, matches, redaction_ok) ==
    [made             |-> TRUE,
     status           |-> IF parse.status = "SUCCESS" THEN "COMPLETE" ELSE "FAILED",
     pages_processed  |-> parse.pages_processed,
     text_length      |-> parse.text_length,
     error_message    |-> parse.error,
     pii_locations    |-> matches,
     redaction_applied |-> matches # << >> /\ redaction_ok,
     redaction_summary |-> IF matches # << >> /\ redaction_ok
                           THEN GetRedactionSummary(matches) ELSE NoSummary]

\* the result built by the except clause
ErrorResult(message) ==
    [made             |-> TRUE,
     status           |-> "FAILED",
     pages_processed  |-> 0,
     text_length      |-> 0,
     error_message    |-> message,
     pii_locations    |-> << >>,
     redaction_applied |-> FALSE,
     redaction_summary |-> NoSummary]

NoProcessingResult ==
    [made             |-> FALSE,
     status           |-> "NONE",
     pages_processed  |-> 0,
     text_length      |-> 0,
     error_message    |-> "",
     pii_locations    |-> << >>,
     redaction_applied |-> FALSE,
     redaction_summary |-> NoSummary]

(***************************************************************************)
(* The download endpoints (download_pdf, download_redacted_pdf).  What the *)
(* body of the try statement does is an outcome: a response, or an         *)
(* exception that is an HTTPException with a status code or another one.   *)
(***************************************************************************)
HTTPException(status_code) ==
    [raised |-> TRUE, http |-> TRUE, status_code |-> status_code]

\* file_storage.get_redacted_file_path is looked up and is not there
AttributeError == [raised |-> TRUE, http |-> FALSE, status_code |-> 0]

FileResponse == [raised |-> FALSE, http |-> FALSE, status_code |-> 200]

\* `except Exception as e: raise HTTPException(status_code=500, ...)`:
\* HTTPException is an Exception, so whatever the body raised is replaced
ExceptException(outcome) ==
    IF outcome.raised THEN HTTPException(500) ELSE outcome

\* the body of download_pdf, given what get_upload_by_id returned and
\* whether the file at file_path exists
DownloadPdfBody(upload_result, file_exists) ==
    IF ~upload_result.made THEN HTTPException(404)
    ELSE IF ~file_exists THEN HTTPException(404)
    ELSE FileResponse

download_pdf(upload_result, file_exists) ==
    ExceptException(DownloadPdfBody(upload_result, file_exists))

\* the body of download_redacted_pdf
DownloadRedactedPdfBody(upload_result, redacted_file_exists) ==
    IF ~upload_result.made THEN HTTPException(404)
    ELSE IF ~HasGetRedactedFilePath THEN AttributeError
    ELSE IF ~redacted_file_exists THEN HTTPException(404)
    ELSE FileResponse

download_redacted_pdf(upload_result, redacted_file_exists) ==
    ExceptException(DownloadRedactedPdfBody(upload_result, redacted_file_exists))

\* what a client was answered: the endpoint, what the request met (the
\* upload known, the requested file on disk) and the status code
Response(endpoint, found, file_exists, status_code) ==
    [endpoint |-> endpoint, found |-> found, file_exists |-> file_exists,
     status_code |-> status_code]

NoResponse == Response("none", FALSE, FALSE, 0)

(***************************************************************************)
(* The documents of the model.                                             *)
(***************************************************************************)
MaxPages == 2

CharW == 6

LineH == 12

\* "no pii here"
TxtPlain ==
    <<"n","o"," ","p","i","i"," ","h","e","r","e">>

\* "a@b.co"
TxtEmail ==
    <<"a","@","b",".","c","o">>

\* "A@B.CO"
TxtEmailUpper ==
    <<"A","@","B",".","C","O">>

\* "123-45-6789"
TxtSsn ==
    <<"1","2","3","-","4","5","-","6","7","8","9">>

\* "555-123-4567"
TxtPhone ==
    <<"5","5","5","-","1","2","3","-","4","5","6","7">>

\* "4111 1111 1111 1111"
TxtCard ==
    <<"4","1","1","1"," ","1","1","1","1"," ","1","1","1","1"," ","1","1","1",
      "1">>

\* "123456789@x.co"
TxtEmailOverSsn ==
    <<"1","2","3","4","5","6","7","8","9","@","x",".","c","o">>

\* "dob 123-45-6789"
TxtDobSsn ==
    <<"d","o","b"," ","1","2","3","-","4","5","-","6","7","8","9">>

\* "tel 123-45-6789"
TxtTelSsn ==
    <<"t","e","l"," ","1","2","3","-","4","5","-","6","7","8","9">>

\* "dob a@b.co"
TxtDobEmail ==
    <<"d","o","b"," ","a","@","b",".","c","o">>

\* "fax 555-123-4567"
TxtFaxPhone ==
    <<"f","a","x"," ","5","5","5","-","1","2","3","-","4","5","6","7">>

\* "birth record of the applicant, id 123-45-6789"
TxtFarBirthSsn ==
    <<"b","i","r","t","h"," ","r","e","c","o","r","d"," ","o","f"," ","t","h",
      "e"," ","a","p","p","l","i","c","a","n","t",","," ","i","d"," ","1","2",
      "3","-","4","5","-","6","7","8","9">>

\* "other record of the applicant, id 123-45-6789"
TxtFarOtherSsn ==
    <<"o","t","h","e","r"," ","r","e","c","o","r","d"," ","o","f"," ","t","h",
      "e"," ","a","p","p","l","i","c","a","n","t",","," ","i","d"," ","1","2",
      "3","-","4","5","-","6","7","8","9">>

\* "Contact us at help@example.com and SSN 123-45-6789"
TxtScenario1 ==
    <<"C","o","n","t","a","c","t"," ","u","s"," ","a","t"," ","h","e","l","p",
      "@","e","x","a","m","p","l","e",".","c","o","m"," ","a","n","d"," ","S",
      "S","N"," ","1","2","3","-","4","5","-","6","7","8","9">>

\* "Part number 123-45-678, not SSN"
TxtScenario2 ==
    <<"P","a","r","t"," ","n","u","m","b","e","r"," ","1","2","3","-","4","5",
      "-","6","7","8",","," ","n","o","t"," ","S","S","N">>

\* "Reach bob@company.org for details."
TxtScenario3 ==
    <<"R","e","a","c","h"," ","b","o","b","@","c","o","m","p","a","n","y",".",
      "o","r","g"," ","f","o","r"," ","d","e","t","a","i","l","s",".">>

\* "id 123-45-6789 or a@b.co"
TxtSsnThenEmail ==
    <<"i","d"," ","1","2","3","-","4","5","-","6","7","8","9"," ","o","r"," ",
      "a","@","b",".","c","o">>

\* "12-31-2024@x.co"
TxtDateEmail ==
    <<"1","2","-","3","1","-","2","0","2","4","@","x",".","c","o">>

\* "123-45-678@x.co"
TxtPartEmail ==
    <<"1","2","3","-","4","5","-","6","7","8","@","x",".","c","o">>

Texts ==
    {TxtPlain, TxtEmail, TxtEmailUpper, TxtSsn,
     TxtPhone, TxtCard, TxtEmailOverSsn, TxtDobSsn,
     TxtTelSsn, TxtDobEmail, TxtFaxPhone, TxtFarBirthSsn,
     TxtFarOtherSsn, TxtScenario1, TxtScenario2, TxtScenario3,
     TxtSsnThenEmail, TxtDateEmail, TxtPartEmail}

\* a span of monospaced text starting at column col of line `line`
Span(text, col, line) ==
    [text |-> text,
     bbox |-> Rect(col * CharW, line * LineH,
                   (col + Len(text)) * CharW, (line + 1) * LineH)]

\* spans whose bbox is degenerate: no width, no height
ZeroWidthSpan(text, col, line) ==
    [text |-> text,
     bbox |-> Rect(col * CharW, line * LineH, col * CharW, (line + 1) * LineH)]

ZeroHeightSpan(text, col, line) ==
    [text |-> text,
     bbox |-> Rect(col * CharW, line * LineH, (col + Len(text)) * CharW, line * LineH)]

\* page layouts: no text; one span; spans on two lines; the same value
\* twice; three spans that overlap in a chain; two emails at the same column
\* below a phone number; degenerate spans
Layouts ==
    { << >> }
    \cup { <<Span(t, 0, 0)>> : t \in Texts }
    \cup { <<Span(TxtEmail, 0, 0), Span(TxtPhone, 0, 1)>>,
           <<Span(TxtPhone, 0, 0), Span(TxtEmail, 0, 2)>>,
           <<Span(TxtEmail, 0, 0), Span(TxtEmail, 0, 2)>>,
           <<Span(TxtEmail, 0, 0), Span(TxtSsn, 5, 0), Span(TxtPhone, 15, 0)>>,
           <<Span(TxtPhone, 0, 0), Span(TxtEmail, 0, 1), Span(TxtEmailOverSsn, 0, 2)>>,
           <<Span(TxtFarBirthSsn, 0, 0), Span(TxtFarOtherSsn, 0, 2)>>,
           <<ZeroWidthSpan(TxtEmail, 0, 0), Span(TxtSsn, 0, 2)>>,
           <<ZeroHeightSpan(TxtSsn, 0, 0)>> }

\* the layouts that documents of several pages are put together from:
\* no text, one value, the chain of overlapping spans
CoreLayouts ==
    { << >> }
    \cup { <<Span(t, 0, 0)>> :
             t \in {TxtEmail, TxtEmailUpper, TxtSsn, TxtPhone, TxtCard, TxtEmailOverSsn} }
    \cup { <<Span(TxtEmail, 0, 0), Span(TxtSsn, 5, 0), Span(TxtPhone, 15, 0)>> }

RECURSIVE PageSeqs(_)
PageSeqs(n) ==
    IF n = 0 THEN { << >> }
    ELSE LET shorter == PageSeqs(n - 1)
         IN  shorter \cup { Append(ps, pg) : ps \in { q \in shorter : Len(q) = n - 1 },
                                              pg \in CoreLayouts }

\* what a file can hold: a PDF, an encrypted PDF, bytes that are no PDF
Documents ==
    { [kind |-> k, pages |-> ps] :
        k \in {"pdf", "encrypted", "corrupt"},
        ps \in { <<pg>> : pg \in Layouts } \cup (PageSeqs(MaxPages) \ { << >> }) }

Absent == [kind |-> "absent", pages |-> << >>]

\* what a failed save may leave at the output path
Partial == [kind |-> "partial", pages |-> << >>]

(***************************************************************************)
(* State.  One task per document.  A task is either the background task  *)
(* of an upload (process_pdf_background: parse, detect, redact, store) or  *)
(* a direct caller of the engine (detect, redact_pdf,                      *)
(* get_redaction_summary, and a second detect on the produced artifact).   *)
(* All tasks share the one engine instance.                                *)
(***************************************************************************)
Tasks == {"t1", "t2"}

Entries == {"process_pdf_background", "direct"}

VARIABLES
    engine,              \* the global pdf_redactor: its pattern tables
    source,              \* task -> the file at pdf_path
    output,              \* task -> the file at output_path
    pc,                  \* task -> where the task stands
    handle,              \* task -> the fitz document handle: none, open, closed
    work,                \* task -> the pages of the open document
    page_num,            \* task -> the page loop's index
    scanned,             \* task -> every regex hit seen so far (history)
    raw_matches,         \* task -> pii_matches as it was before deduplication
    pii_matches,         \* task -> the match list
    metadata,            \* task -> detection metadata
    redaction_rectangles,\* task -> the redaction plan
    applied,             \* task -> the rectangles burned in so far (history)
    redaction_success,   \* task -> what redact_pdf returned
    artifact_matches,    \* task -> the result of detect on the artifact
    entry,               \* task -> who runs it: an element of Entries, or "none"
    parse_result,        \* task -> what parse_pdf returned
    redact_input,        \* task -> the match list redact_pdf was called with (history)
    redaction_summary,   \* task -> what get_redaction_summary returned
    processing_result,   \* task -> the result handed to store_upload_result
    response             \* task -> what a download endpoint answered for the upload

\* what only the callers of the engine write
caller_vars == <<entry, parse_result, redaction_summary, processing_result, response>>

vars ==
    <<engine, source, output, pc, handle, work, page_num, scanned, raw_matches,
      pii_matches, metadata, redaction_rectangles, applied, redaction_success,
      artifact_matches, redact_input, caller_vars>>

NoResult == [error |-> FALSE, pii_matches |-> << >>, metadata |-> NoMetadata]

\* the state in which the tasks of `runs` (task -> document and entry) are
\* about to start
Start(runs) ==
    /\ engine = NewRedactor
    /\ source = [t \in Tasks |-> IF t \in DOMAIN runs THEN runs[t].doc ELSE Absent]
    /\ output = [t \in Tasks |-> Absent]
    /\ entry = [t \in Tasks |-> IF t \in DOMAIN runs THEN runs[t].entry ELSE "none"]
    /\ pc = [t \in Tasks |->
               IF t \notin DOMAIN runs THEN "idle"
               ELSE IF runs[t].entry = "process_pdf_background" THEN "parse"
               ELSE "detect_open"]
    /\ parse_result = [t \in Tasks |-> NoParse]
    /\ redact_input = [t \in Tasks |-> << >>]
    /\ redaction_summary = [t \in Tasks |-> NoSummary]
    /\ processing_result = [t \in Tasks |-> NoProcessingResult]
    /\ response = [t \in Tasks |-> NoResponse]
    /\ handle = [t \in Tasks |-> "none"]
    /\ work = [t \in Tasks |-> << >>]
    /\ page_num = [t \in Tasks |-> 0]
    /\ scanned = [t \in Tasks |-> << >>]
    /\ raw_matches = [t \in Tasks |-> << >>]
    /\ pii_matches = [t \in Tasks |-> << >>]
    /\ metadata = [t \in Tasks |-> NoMetadata]
    /\ redaction_rectangles = [t \in Tasks |-> << >>]
    /\ applied = [t \in Tasks |-> 0]
    /\ redaction_success = [t \in Tasks |-> FALSE]
    /\ artifact_matches = [t \in Tasks |-> NoResult]

Init ==
    \E d \in Documents, e \in Entries :
        Start([t \in {"t1"} |-> [doc |-> d, entry |-> e]])

(***************************************************************************)
(* process_pdf_background around the calls of the engine.                  *)
(***************************************************************************)
\* parse_result = pdf_parser.parse_pdf(Path(file_path))
Parse(t) ==
    /\ pc[t] = "parse"
    /\ parse_result' = [parse_result EXCEPT ![t] = ParsePdf(source[t])]
    /\ pc' = [pc EXCEPT ![t] = "detect_open"]
    /\ UNCHANGED <<engine, source, output, handle, work, page_num, scanned,
                   raw_matches, pii_matches, metadata, redaction_rectangles, applied,
                   redaction_success, artifact_matches, redact_input, entry,
                   redaction_summary, processing_result, response>>

\* no match, or redact_pdf has returned: the PDFProcessingResult is built
\* and stored
StoreResult(t) ==
    /\ entry[t] = "process_pdf_background"
    /\ ~processing_result[t].made
    /\ IF pii_matches[t] = << >>
       THEN pc[t] = "detected"
       ELSE pc[t] \in {"redact_failed", "redacted"}
    /\ processing_result' = [processing_result EXCEPT ![t] =
            ProcessingResult(parse_result[t], pii_matches[t], redaction_success[t])]
    /\ UNCHANGED <<engine, source, output, pc, handle, work, page_num, scanned,
                   raw_matches, pii_matches, metadata, redaction_rectangles, applied,
                   redaction_success, artifact_matches, redact_input, entry,
                   parse_result, redaction_summary, response>>

\* the except clause: detect raised, or there are matches and the call of
\* get_redacted_file_path raised; the error result is stored
StoreError(t) ==
    /\ entry[t] = "process_pdf_background"
    /\ ~processing_result[t].made
    /\ IF pc[t] = "detect_error"
       THEN processing_result' = [processing_result EXCEPT ![t] =
                ErrorResult("Failed to detect PII with coordinates")]
       ELSE /\ pc[t] = "detected"
            /\ pii_matches[t] # << >>
            /\ ~HasGetRedactedFilePath
            /\ processing_result' = [processing_result EXCEPT ![t] =
                    ErrorResult("no attribute get_redacted_file_path")]
    /\ UNCHANGED <<engine, source, output, pc, handle, work, page_num, scanned,
                   raw_matches, pii_matches, metadata, redaction_rectangles, applied,
                   redaction_success, artifact_matches, redact_input, entry,
                   parse_result, redaction_summary, response>>

\* a direct caller: get_redaction_summary(pii_matches) after redact_pdf
\* returned True, or on a match list it was given
GetSummary(t) ==
    /\ entry[t] = "direct"
    /\ pc[t] \in {"redacted", "verified", "given"}
    /\ ~redaction_summary[t].made
    /\ redaction_summary' = [redaction_summary EXCEPT ![t] =
                               GetRedactionSummary(pii_matches[t])]
    /\ UNCHANGED <<engine, source, output, pc, handle, work, page_num, scanned,
                   raw_matches, pii_matches, metadata, redaction_rectangles, applied,
                   redaction_success, artifact_matches, redact_input, entry,
                   parse_result, processing_result, response>>

(***************************************************************************)
(* detect_pii_with_coordinates, step by step.                              *)
(***************************************************************************)
\* fitz.open and the needs_pass check
DetectOpen(t) ==
    /\ pc[t] = "detect_open"
    /\ IF ~Opens(source[t])
       THEN \* fitz.open raises; the except clause re-raises
            /\ pc' = [pc EXCEPT ![t] = "detect_error"]
            /\ UNCHANGED <<handle, work>>
       ELSE IF NeedsPass(source[t])
       THEN \* doc.close(); raise
            /\ pc' = [pc EXCEPT ![t] = "detect_error"]
            /\ handle' = [handle EXCEPT ![t] = "closed"]
            /\ UNCHANGED work
       ELSE /\ pc' = [pc EXCEPT ![t] = "detect_scan"]
            /\ handle' = [handle EXCEPT ![t] = "open"]
            /\ work' = [work EXCEPT ![t] = source[t].pages]
    /\ page_num' = [page_num EXCEPT ![t] = 0]
    /\ UNCHANGED <<engine, source, output, scanned, raw_matches, pii_matches,
                   metadata, redaction_rectangles, applied, redaction_success,
                   artifact_matches, redact_input, caller_vars>>

\* DetectScanPage with the match list kept in one place for all calls
DetectScanPageShared(t) ==
    /\ pc[t] = "detect_scan"
    /\ page_num[t] < Len(work[t])
    /\ scanned' = [scanned EXCEPT ![t] =
                     @ \o ScanPage(engine, work[t][page_num[t] + 1], page_num[t])]
    /\ pii_matches' = [u \in Tasks |->
                         pii_matches[u]
                         \o PageMatches(engine, work[t][page_num[t] + 1], page_num[t],
                                        Len(pii_matches[u]))]
    /\ page_num' = [page_num EXCEPT ![t] = @ + 1]
    /\ UNCHANGED <<engine, source, output, pc, handle, work, raw_matches, metadata,
                   redaction_rectangles, applied, redaction_success, artifact_matches,
                   redact_input, caller_vars>>

\* one turn of `for page_num in range(total_pages)`
DetectScanPage(t) ==
    /\ pc[t] = "detect_scan"
    /\ page_num[t] < Len(work[t])
    /\ scanned' = [scanned EXCEPT ![t] =
                     @ \o ScanPage(engine, work[t][page_num[t] + 1], page_num[t])]
    /\ pii_matches' = [pii_matches EXCEPT ![t] =
                     @ \o PageMatches(engine, work[t][page_num[t] + 1], page_num[t], Len(@))]
    /\ page_num' = [page_num EXCEPT ![t] = @ + 1]
    /\ UNCHANGED <<engine, source, output, pc, handle, work, raw_matches, metadata,
                   redaction_rectangles, applied, redaction_success, artifact_matches,
                   redact_input, caller_vars>>

\* the texts the other calls have returned
TextsOfOtherCalls(t) ==
    UNION { { Lower(pii_matches[u][i].text) : i \in DOMAIN pii_matches[u] } :
              u \in { v \in Tasks \ {t} : pc[v] \notin {"idle", "parse", "detect_open",
                                                        "detect_scan", "detect_error"} } }

\* DetectFinish with seen_texts kept from call to call
DetectFinishRemembering(t) ==
    LET Fresh(m) == Lower(m.text) \notin TextsOfOtherCalls(t)
        found == SelectSeq(DeduplicateMatches(pii_matches[t]), Fresh)
    IN  /\ pc[t] = "detect_scan"
        /\ page_num[t] = Len(work[t])
        /\ handle' = [handle EXCEPT ![t] = "closed"]
        /\ raw_matches' = [raw_matches EXCEPT ![t] = pii_matches[t]]
        /\ pii_matches' = [pii_matches EXCEPT ![t] = found]
        /\ metadata' = [metadata EXCEPT ![t] = Metadata(Len(work[t]), found)]
        /\ pc' = [pc EXCEPT ![t] = "detected"]
        /\ UNCHANGED <<engine, source, output, work, page_num, scanned,
                       redaction_rectangles, applied, redaction_success,
                       artifact_matches, redact_input, caller_vars>>

\* doc.close(), _deduplicate_matches, the metadata, return
DetectFinish(t) ==
    /\ pc[t] = "detect_scan"
    /\ page_num[t] = Len(work[t])
    /\ handle' = [handle EXCEPT ![t] = "closed"]
    /\ raw_matches' = [raw_matches EXCEPT ![t] = pii_matches[t]]
    /\ pii_matches' = [pii_matches EXCEPT ![t] = DeduplicateMatches(@)]
    /\ metadata' = [metadata EXCEPT ![t] =
                     Metadata(Len(work[t]), DeduplicateMatches(pii_matches[t]))]
    /\ pc' = [pc EXCEPT ![t] = "detected"]
    /\ UNCHANGED <<engine, source, output, work, page_num, scanned,
                   redaction_rectangles, applied, redaction_success, artifact_matches,
                   redact_input, caller_vars>>

(***************************************************************************)
(* redact_pdf, step by step.                                               *)
(***************************************************************************)
\* RedactOpen that does not wait for detect to return
RedactOpenEarly(t) ==
    /\ pc[t] \in {"detect_scan", "detected"}
    /\ redact_input' = [redact_input EXCEPT ![t] = pii_matches[t]]
    /\ redaction_rectangles' = [redaction_rectangles EXCEPT ![t] =
                                  CreateRedactionPlan(pii_matches[t])]
    /\ handle' = [handle EXCEPT ![t] = "open"]
    /\ work' = [work EXCEPT ![t] = source[t].pages]
    /\ page_num' = [page_num EXCEPT ![t] = 0]
    /\ pc' = [pc EXCEPT ![t] = "redact_pages"]
    /\ UNCHANGED <<engine, source, output, scanned, raw_matches, pii_matches,
                   metadata, applied, redaction_success, artifact_matches, caller_vars>>

\* the call redact_pdf(pdf_path, output_path, pii_matches) (the background
\* task calls it when there are matches, after get_redacted_file_path),
\* create_redaction_plan and fitz.open
RedactOpen(t) ==
    /\ pc[t] = "detected"
    /\ IF entry[t] = "process_pdf_background"
       THEN pii_matches[t] # << >> /\ HasGetRedactedFilePath
       ELSE TRUE
    /\ redact_input' = [redact_input EXCEPT ![t] = pii_matches[t]]
    /\ redaction_rectangles' = [redaction_rectangles EXCEPT ![t] =
                                  CreateRedactionPlan(pii_matches[t])]
    /\ handle' = [handle EXCEPT ![t] = "open"]
    /\ work' = [work EXCEPT ![t] = source[t].pages]
    /\ page_num' = [page_num EXCEPT ![t] = 0]
    /\ pc' = [pc EXCEPT ![t] = "redact_pages"]
    /\ UNCHANGED <<engine, source, output, scanned, raw_matches, pii_matches,
                   metadata, applied, redaction_success, artifact_matches, caller_vars>>

\* one turn of `for page_num in range(len(doc))`: the page's annotations
\* are added and burned in, or apply_redactions raises and redact_pdf
\* returns False from its except clause
RedactPage(t) ==
    /\ pc[t] = "redact_pages"
    /\ page_num[t] < Len(work[t])
    /\ LET page_redactions == PageRedactions(redaction_rectangles[t], page_num[t])
       IN  \/ /\ work' = [work EXCEPT ![t][page_num[t] + 1] =
                            IF page_redactions # << >>
                            THEN ApplyRedactions(@, page_redactions) ELSE @]
              /\ applied' = [applied EXCEPT ![t] = @ + Len(page_redactions)]
              /\ page_num' = [page_num EXCEPT ![t] = @ + 1]
              /\ UNCHANGED <<pc, redaction_success>>
           \/ /\ page_redactions # << >>
              /\ pc' = [pc EXCEPT ![t] = "redact_failed"]
              /\ redaction_success' = [redaction_success EXCEPT ![t] = FALSE]
              /\ UNCHANGED <<work, applied, page_num>>
    /\ UNCHANGED <<engine, source, output, handle, scanned, raw_matches, pii_matches,
                   metadata, redaction_rectangles, artifact_matches, redact_input,
                   caller_vars>>

\* RedactSave that saves over the file it opened
RedactSaveInPlace(t) ==
    /\ pc[t] = "redact_pages"
    /\ page_num[t] = Len(work[t])
    /\ source' = [source EXCEPT ![t] = [kind |-> "pdf", pages |-> work[t]]]
    /\ handle' = [handle EXCEPT ![t] = "closed"]
    /\ redaction_success' = [redaction_success EXCEPT ![t] = TRUE]
    /\ pc' = [pc EXCEPT ![t] = "redacted"]
    /\ UNCHANGED <<engine, output, work, page_num, scanned, raw_matches, pii_matches,
                   metadata, redaction_rectangles, applied, artifact_matches,
                   redact_input, caller_vars>>

\* RedactSave that returns True without having saved
RedactSaveUnwritten(t) ==
    /\ pc[t] = "redact_pages"
    /\ page_num[t] = Len(work[t])
    /\ handle' = [handle EXCEPT ![t] = "closed"]
    /\ redaction_success' = [redaction_success EXCEPT ![t] = TRUE]
    /\ pc' = [pc EXCEPT ![t] = "redacted"]
    /\ UNCHANGED <<engine, source, output, work, page_num, scanned, raw_matches,
                   pii_matches, metadata, redaction_rectangles, applied,
                   artifact_matches, redact_input, caller_vars>>

\* doc.save(output_path), doc.close(), return True; or save raises, having
\* written nothing or a part of the file, and redact_pdf returns False
RedactSave(t) ==
    /\ pc[t] = "redact_pages"
    /\ page_num[t] = Len(work[t])
    /\ \/ /\ output' = [output EXCEPT ![t] = [kind |-> "pdf", pages |-> work[t]]]
          /\ handle' = [handle EXCEPT ![t] = "closed"]
          /\ redaction_success' = [redaction_success EXCEPT ![t] = TRUE]
          /\ pc' = [pc EXCEPT ![t] = "redacted"]
       \/ /\ \E left \in {output[t], Partial} : output' = [output EXCEPT ![t] = left]
          /\ redaction_success' = [redaction_success EXCEPT ![t] = FALSE]
          /\ pc' = [pc EXCEPT ![t] = "redact_failed"]
          /\ UNCHANGED handle
    /\ UNCHANGED <<engine, source, work, page_num, scanned, raw_matches, pii_matches,
                   metadata, redaction_rectangles, applied, artifact_matches,
                   redact_input, caller_vars>>

\* a direct caller: detect_pii_with_coordinates(output_path) on the artifact
\* of a successful run
DetectArtifact(t) ==
    /\ entry[t] = "direct"
    /\ pc[t] = "redacted"
    /\ artifact_matches' = [artifact_matches EXCEPT ![t] = Detect(engine, output[t])]
    /\ pc' = [pc EXCEPT ![t] = "verified"]
    /\ UNCHANGED <<engine, source, output, handle, work, page_num, scanned, raw_matches,
                   pii_matches, metadata, redaction_rectangles, applied,
                   redaction_success, redact_input, caller_vars>>

Next ==
    \E t \in Tasks :
        \/ Parse(t)
        \/ DetectOpen(t)
        \/ DetectScanPage(t)
        \/ DetectFinish(t)
        \/ RedactOpen(t)
        \/ RedactPage(t)
        \/ RedactSave(t)
        \/ DetectArtifact(t)
        \/ GetSummary(t)
        \/ StoreResult(t)
        \/ StoreError(t)

Spec == Init /\ [][Next]_vars

(***************************************************************************)
(* Two tasks at a time: two uploads in the background, two direct callers, *)
(* or one of each, on the same or on different documents.                  *)
(***************************************************************************)
ParDocuments ==
    { [kind |-> "pdf", pages |-> << <<Span(TxtEmail, 0, 0)>> >>],
      [kind |-> "pdf", pages |-> << <<Span(TxtSsn, 0, 0)>>, <<Span(TxtPhone, 0, 0)>> >>],
      [kind |-> "pdf", pages |-> << <<Span(TxtPlain, 0, 0)>> >>],
      [kind |-> "encrypted", pages |-> << <<Span(TxtEmail, 0, 0)>> >>] }

InitPar ==
    \E d1, d2 \in ParDocuments, e1, e2 \in Entries :
        Start([t \in Tasks |-> IF t = "t1" THEN [doc |-> d1, entry |-> e1]
                                           ELSE [doc |-> d2, entry |-> e2]])

SpecPar == InitPar /\ [][Next]_vars

(***************************************************************************)
(* get_redaction_summary on match lists given by the caller: any types,    *)
(* pages and confidences, those at and next to the bucket boundaries       *)
(* included.                                                               *)
(***************************************************************************)
MaxGiven == 2

GivenConfidences == {MediumAbove, MediumAbove + 1, HighAbove, HighAbove + 1}

GivenMatches ==
    { [text        |-> TxtEmail,
       type        |-> ty,
       page_number |-> p,
       bbox        |-> Span(TxtEmail, 0, 0).bbox,
       confidence  |-> c,
       context     |-> TxtEmail,
       ord         |-> 0] :
        ty \in RedactionType, p \in {0, 1}, c \in GivenConfidences }

\* the lists of at most n given matches
GivenLists(n) == UNION { [1 .. k -> GivenMatches] : k \in 0 .. n }

InitSummary ==
    \E given \in GivenLists(MaxGiven) :
        /\ engine = NewRedactor
        /\ source = [t \in Tasks |-> Absent]
        /\ output = [t \in Tasks |-> Absent]
        /\ entry = [t \in Tasks |-> IF t = "t1" THEN "direct" ELSE "none"]
        /\ pc = [t \in Tasks |-> IF t = "t1" THEN "given" ELSE "idle"]
        /\ pii_matches = [t \in Tasks |-> IF t = "t1" THEN given ELSE << >>]
        /\ parse_result = [t \in Tasks |-> NoParse]
        /\ redact_input = [t \in Tasks |-> << >>]
        /\ redaction_summary = [t \in Tasks |-> NoSummary]
        /\ processing_result = [t \in Tasks |-> NoProcessingResult]
        /\ response = [t \in Tasks |-> NoResponse]
    /\ response = [t \in Tasks |-> NoResponse]
        /\ handle = [t \in Tasks |-> "none"]
        /\ work = [t \in Tasks |-> << >>]
        /\ page_num = [t \in Tasks |-> 0]
        /\ scanned = [t \in Tasks |-> << >>]
        /\ raw_matches = [t \in Tasks |-> << >>]
        /\ metadata = [t \in Tasks |-> NoMetadata]
        /\ redaction_rectangles = [t \in Tasks |-> << >>]
        /\ applied = [t \in Tasks |-> 0]
        /\ redaction_success = [t \in Tasks |-> FALSE]
        /\ artifact_matches = [t \in Tasks |-> NoResult]

NextSummary == \E t \in Tasks : GetSummary(t)

SpecSummary == InitSummary /\ [][NextSummary]_vars

(***************************************************************************)
(* _deduplicate_matches on match lists given by the caller: any type with  *)
(* any text; one text at three places (two apart on a page, one on another *)
(* page) and a second text that overlaps the first place.  The confidence  *)
(* is the one the scanner gives the type.                                  *)
(***************************************************************************)
MaxDedup == 3

\* (text, page, column)
DedupPlaces ==
    {<<TxtEmail, 0, 0>>, <<TxtSsn, 0, 0>>, <<TxtSsn, 0, 12>>, <<TxtSsn, 1, 0>>}

DedupMatches ==
    { [text        |-> pl[1],
       type        |-> ty,
       page_number |-> pl[2],
       bbox        |-> Span(pl[1], pl[3], 0).bbox,
       confidence  |-> Confidence(ty),
       context     |-> pl[1]] :
        ty \in RedactionType, pl \in DedupPlaces }

\* the lists of at most n such matches
DedupLists(n) == UNION { [1 .. k -> DedupMatches] : k \in 0 .. n }

\* the matches numbered in the order of the list
Numbered(matches) ==
    [i \in DOMAIN matches |->
        [text        |-> matches[i].text,
         type        |-> matches[i].type,
         page_number |-> matches[i].page_number,
         bbox        |-> matches[i].bbox,
         confidence  |-> matches[i].confidence,
         context     |-> matches[i].context,
         ord         |-> i]]

InitDedup ==
    \E given \in DedupLists(MaxDedup) :
        /\ engine = NewRedactor
        /\ source = [t \in Tasks |-> Absent]
        /\ output = [t \in Tasks |-> Absent]
        /\ entry = [t \in Tasks |-> IF t = "t1" THEN "direct" ELSE "none"]
        /\ pc = [t \in Tasks |-> IF t = "t1" THEN "given" ELSE "idle"]
        /\ raw_matches = [t \in Tasks |-> IF t = "t1" THEN Numbered(given) ELSE << >>]
        /\ pii_matches = [t \in Tasks |-> << >>]
        /\ parse_result = [t \in Tasks |-> NoParse]
        /\ redact_input = [t \in Tasks |-> << >>]
        /\ redaction_summary = [t \in Tasks |-> NoSummary]
        /\ processing_result = [t \in Tasks |-> NoProcessingResult]
        /\ response = [t \in Tasks |-> NoResponse]
    /\ response = [t \in Tasks |-> NoResponse]
        /\ handle = [t \in Tasks |-> "none"]
        /\ work = [t \in Tasks |-> << >>]
        /\ page_num = [t \in Tasks |-> 0]
        /\ scanned = [t \in Tasks |-> << >>]
        /\ metadata = [t \in Tasks |-> NoMetadata]
        /\ redaction_rectangles = [t \in Tasks |-> << >>]
        /\ applied = [t \in Tasks |-> 0]
        /\ redaction_success = [t \in Tasks |-> FALSE]
        /\ artifact_matches = [t \in Tasks |-> NoResult]

\* a direct call: unique = _deduplicate_matches(matches)
Deduplicate(t) ==
    /\ entry[t] = "direct"
    /\ pc[t] = "given"
    /\ pii_matches' = [pii_matches EXCEPT ![t] = DeduplicateMatches(raw_matches[t])]
    /\ pc' = [pc EXCEPT ![t] = "deduplicated"]
    /\ UNCHANGED <<engine, source, output, handle, work, page_num, scanned,
                   raw_matches, metadata, redaction_rectangles, applied,
                   redaction_success, artifact_matches, redact_input, caller_vars>>

NextDedup == \E t \in Tasks : Deduplicate(t)

SpecDedup == InitDedup /\ [][NextDedup]_vars

(***************************************************************************)
(* redact_pdf and get_redaction_summary on a match list given by the       *)
(* caller for a readable document: the page numbers of the matches lie     *)
(* within the document or behind its last page.                            *)
(***************************************************************************)
RedactDocuments == { d \in ParDocuments : d.kind = "pdf" }

RedactMatches ==
    { [text        |-> TxtEmail,
       type        |-> EMAIL,
       page_number |-> p,
       bbox        |-> Span(TxtEmail, 0, 0).bbox,
       confidence  |-> Confidence(EMAIL),
       context     |-> TxtEmail] : p \in 0 .. MaxPages }

InitRedact ==
    \E d \in RedactDocuments :
        \E k \in 0 .. MaxGiven :
            \E given \in [1 .. k -> RedactMatches] :
                /\ engine = NewRedactor
                /\ source = [t \in Tasks |-> IF t = "t1" THEN d ELSE Absent]
                /\ output = [t \in Tasks |-> Absent]
                /\ entry = [t \in Tasks |-> IF t = "t1" THEN "direct" ELSE "none"]
                /\ pc = [t \in Tasks |-> IF t = "t1" THEN "detected" ELSE "idle"]
                /\ pii_matches = [t \in Tasks |-> IF t = "t1" THEN Numbered(given) ELSE << >>]
                /\ raw_matches = [t \in Tasks |-> << >>]
                /\ parse_result = [t \in Tasks |-> NoParse]
                /\ redact_input = [t \in Tasks |-> << >>]
                /\ redaction_summary = [t \in Tasks |-> NoSummary]
                /\ processing_result = [t \in Tasks |-> NoProcessingResult]
                /\ response = [t \in Tasks |-> NoResponse]
                /\ handle = [t \in Tasks |-> "none"]
                /\ work = [t \in Tasks |-> << >>]
                /\ page_num = [t \in Tasks |-> 0]
                /\ scanned = [t \in Tasks |-> << >>]
                /\ metadata = [t \in Tasks |-> NoMetadata]
                /\ redaction_rectangles = [t \in Tasks |-> << >>]
                /\ applied = [t \in Tasks |-> 0]
                /\ redaction_success = [t \in Tasks |-> FALSE]
                /\ artifact_matches = [t \in Tasks |-> NoResult]

NextRedact ==
    \E t \in Tasks :
        \/ RedactOpen(t)
        \/ RedactPage(t)
        \/ RedactSave(t)
        \/ GetSummary(t)

SpecRedact == InitRedact /\ [][NextRedact]_vars

(***************************************************************************)
(* Uploads and their downloads: the background task of one upload, the     *)
(* removal of the upload directory after processing, and one request to a  *)
(* download endpoint for the upload id, at any moment.  An id is unknown   *)
(* as long as no result is stored for it.                                  *)
(***************************************************************************)
\* file_storage.delete_upload_directory: the uploaded file is gone
DeleteUploadDirectory(t) ==
    /\ entry[t] = "process_pdf_background"
    /\ processing_result[t].made
    /\ source[t] # Absent
    /\ source' = [source EXCEPT ![t] = Absent]
    /\ UNCHANGED <<engine, output, pc, handle, work, page_num, scanned, raw_matches,
                   pii_matches, metadata, redaction_rectangles, applied,
                   redaction_success, artifact_matches, redact_input, caller_vars>>

\* GET /api/download-pdf/{upload_id}
DownloadPdf(t) ==
    /\ response[t].endpoint = "none"
    /\ LET upload_result == processing_result[t]
           file_exists   == source[t] # Absent
       IN  response' = [response EXCEPT ![t] =
               Response("download_pdf", upload_result.made, file_exists,
                        download_pdf(upload_result, file_exists).status_code)]
    /\ UNCHANGED <<engine, source, output, pc, handle, work, page_num, scanned,
                   raw_matches, pii_matches, metadata, redaction_rectangles, applied,
                   redaction_success, artifact_matches, redact_input, entry,
                   parse_result, redaction_summary, processing_result>>

\* GET /api/download-redacted-pdf/{upload_id}
DownloadRedactedPdf(t) ==
    /\ response[t].endpoint = "none"
    /\ LET upload_result == processing_result[t]
           file_exists   == output[t] # Absent
       IN  response' = [response EXCEPT ![t] =
               Response("download_redacted_pdf", upload_result.made, file_exists,
                        download_redacted_pdf(upload_result, file_exists).status_code)]
    /\ UNCHANGED <<engine, source, output, pc, handle, work, page_num, scanned,
                   raw_matches, pii_matches, metadata, redaction_rectangles, applied,
                   redaction_success, artifact_matches, redact_input, entry,
                   parse_result, redaction_summary, processing_result>>

\* one upload of a one-page file
InitDownload ==
    \E d \in { doc \in Documents : Len(doc.pages) = 1 } :
        Start([t \in {"t1"} |-> [doc |-> d, entry |-> "process_pdf_background"]])

NextDownload ==
    \E t \in Tasks :
        \/ Parse(t)
        \/ DetectOpen(t)
        \/ DetectScanPage(t)
        \/ DetectFinish(t)
        \/ StoreResult(t)
        \/ StoreError(t)
        \/ DeleteUploadDirectory(t)
        \/ DownloadPdf(t)
        \/ DownloadRedactedPdf(t)

SpecDownload == InitDownload /\ [][NextDownload]_vars

(***************************************************************************)
(* Properties.                                                             *)
(***************************************************************************)
\* detect has returned for the task's document
Detected(t) ==
    pc[t] \in {"detected", "redact_pages", "redact_failed", "redacted", "verified"}

\* the texts of a match list
TextsOf(matches) == { matches[i].text : i \in DOMAIN matches }

\* C1: Redaction round-trip.  After detect returned M and redact succeeded,
\* detect on the produced artifact returns no match whose text is the text
\* of a match of M.
C1_RoundTrip ==
    \A t \in Tasks :
        pc[t] = "verified" =>
            /\ ~artifact_matches[t].error
            /\ TextsOf(artifact_matches[t].pii_matches) \cap TextsOf(pii_matches[t]) = {}

\* C2: Every planned rectangle contains the bbox of the match it is planned
\* for: the bbox grown by the margin on all four sides.
C2_RectangleContainsMatch ==
    \A t \in Tasks :
        \A i \in DOMAIN redaction_rectangles[t] :
            LET r == redaction_rectangles[t][i].bbox
                m == pii_matches[t][i].bbox
            IN  r.x0 <= m.x0 /\ r.y0 <= m.y0 /\ r.x1 >= m.x1 /\ r.y1 >= m.y1

\* C3: redact never surfaces a partial redaction.  When the burn-in fails on
\* a page or the save fails, redact_pdf returns False and the run leaves no
\* artifact at the output path; it returns True only when every page with
\* planned rectangles was burned in and the document was saved.
C3_NoPartialArtifact ==
    \A t \in Tasks :
        /\ pc[t] = "redact_failed" =>
              ~redaction_success[t] /\ output[t] = Absent
        /\ redaction_success[t] =>
              /\ page_num[t] = Len(source[t].pages)
              /\ applied[t] = Len(redaction_rectangles[t])
              /\ output[t] = [kind |-> "pdf", pages |-> work[t]]

\* the match kept its place in the list detect returned
Retained(t, m) == \E i \in DOMAIN pii_matches[t] : pii_matches[t][i].ord = m.ord

SamePageOverlap(a, b) ==
    a.page_number = b.page_number /\ Intersects(a.bbox, b.bbox)

\* a is the one the claim prefers: higher confidence, on a tie the smaller x0
Preferred(a, b) ==
    \/ a.confidence > b.confidence
    \/ a.confidence = b.confidence /\ a.bbox.x0 < b.bbox.x0

\* u comes before m in the sorted list (equal keys: scan order)
SortsBefore(u, m) ==
    \/ KeyLess(u, m)
    \/ ~KeyLess(m, u) /\ u.ord < m.ord

\* a retained match that sorts before m has m's text or overlaps m
BlockedByEarlier(t, m) ==
    \E i \in DOMAIN pii_matches[t] :
        LET u == pii_matches[t][i]
        IN  /\ SortsBefore(u, m)
            /\ (Lower(u.text) = Lower(m.text) \/ SamePageOverlap(u, m))

\* C4 as stated: of any two input matches that overlap on a page exactly one
\* is retained, the one with the higher confidence (tie: the smaller x0).
C4_AsStated ==
    \A t \in Tasks :
        Detected(t) =>
            \A i, j \in DOMAIN raw_matches[t] :
                LET a == raw_matches[t][i]
                    b == raw_matches[t][j]
                IN  (i # j /\ SamePageOverlap(a, b)) =>
                        /\ Retained(t, a) # Retained(t, b)
                        /\ Preferred(a, b) => Retained(t, a)

\* C4 (amended): two input matches that overlap on a page are never both
\* retained, and the preferred one is retained unless a retained match that
\* sorts before it has its lower-cased text or overlaps it on the page.
C4_OverlapCollapses ==
    \A t \in Tasks :
        Detected(t) =>
            \A i, j \in DOMAIN raw_matches[t] :
                LET a == raw_matches[t][i]
                    b == raw_matches[t][j]
                IN  (i # j /\ SamePageOverlap(a, b)) =>
                        /\ ~(Retained(t, a) /\ Retained(t, b))
                        /\ (Preferred(a, b) /\ ~Retained(t, a)) => BlockedByEarlier(t, a)

\* two overlapping input matches, the preferred one retained, the other dropped
C4_Witness ==
    \E t \in Tasks :
        /\ Detected(t)
        /\ \E i, j \in DOMAIN raw_matches[t] :
              LET a == raw_matches[t][i]
                  b == raw_matches[t][j]
              IN  /\ i # j
                  /\ SamePageOverlap(a, b)
                  /\ Preferred(a, b)
                  /\ Retained(t, a)
                  /\ ~Retained(t, b)

\* C5: after deduplication no two retained matches have the same lower-cased
\* text, and no two retained matches of a page have intersecting bboxes.
C5_RetainedOnce ==
    \A t \in Tasks :
        Detected(t) =>
            \A i, j \in DOMAIN pii_matches[t] :
                i # j =>
                    /\ Lower(pii_matches[t][i].text) # Lower(pii_matches[t][j].text)
                    /\ ~SamePageOverlap(pii_matches[t][i], pii_matches[t][j])

\* the input held the same value in two spellings and an overlapping pair,
\* or a value twice; deduplication dropped something
C5_Witness ==
    \E t \in Tasks :
        /\ Detected(t)
        /\ pii_matches[t] # << >>
        /\ \E i, j \in DOMAIN raw_matches[t] :
              /\ raw_matches[t][i].text # raw_matches[t][j].text
              /\ Lower(raw_matches[t][i].text) = Lower(raw_matches[t][j].text)
              /\ Retained(t, raw_matches[t][i])
              /\ ~Retained(t, raw_matches[t][j])

CountOfType(by_type, ty) == IF ty \in DOMAIN by_type THEN by_type[ty] ELSE 0

\* the regex hits that passed the filter and whose coordinate mapping failed
Unmapped(t) == { k \in DOMAIN scanned[t] : ~scanned[t][k].filtered /\ ~scanned[t][k].mapped }

\* C6: a match whose coordinate mapping failed is still counted in the
\* detection metadata (total_matches, matches_by_type), on top of the
\* retained matches, and has no redaction rectangle.
C6_UnmappedStillCounted ==
    \A t \in Tasks :
        Detected(t) =>
            /\ metadata[t].total_matches >= Len(pii_matches[t]) + Cardinality(Unmapped(t))
            /\ \A ty \in RedactionType :
                  CountOfType(metadata[t].matches_by_type, ty) >=
                      Cardinality({ i \in DOMAIN pii_matches[t] : pii_matches[t][i].type = ty })
                      + Cardinality({ k \in Unmapped(t) : scanned[t][k].type = ty })
            /\ Len(redaction_rectangles[t]) <= Len(pii_matches[t])

\* the keyword blacklist the specification gives for the false-positive filter
Blacklist ==
    false_positive_indicators
    \cup { <<"p","h","o","n","e">>, <<"t","e","l">>, <<"f","a","x">> }

\* detect returned the match made from this regex hit
InOutput(t, c) ==
    \E i \in DOMAIN pii_matches[t] :
        /\ pii_matches[t][i].text = c.text
        /\ pii_matches[t][i].type = c.type
        /\ pii_matches[t][i].page_number = c.page_number
        /\ pii_matches[t][i].bbox = c.bbox

\* C7: a candidate of any type whose lower-cased context holds a blacklisted
\* keyword is rejected and is not in detect's output.
C7_KeywordRejects ==
    \A t \in Tasks :
        Detected(t) =>
            \A k \in DOMAIN scanned[t] :
                (\E kw \in Blacklist : Contains(Lower(scanned[t][k].context), kw))
                    => ~InOutput(t, scanned[t][k])

\* C8: the false-positive verdict depends only on the match's text and its
\* window of 20 characters each side: candidates that agree on both (and on
\* where the match lies in the window) get the same verdict.
C8_VerdictFromWindowOnly ==
    \A t \in Tasks :
        \A k, l \in DOMAIN scanned[t] :
            LET c == scanned[t][k]
                e == scanned[t][l]
            IN  ( /\ c.type = e.type
                  /\ c.text = e.text
                  /\ c.context = e.context
                  /\ Min({c.start, ContextChars}) = Min({e.start, ContextChars}) )
                    => c.filtered = e.filtered

\* redact_pdf has built its plan
Planned(t) == pc[t] \in {"redact_pages", "redact_failed", "redacted", "verified"}

\* C9 as stated: the rectangles are ordered by page_number ascending and
\* within a page by the scan order of their matches.
C9_AsStated ==
    \A t \in Tasks :
        Planned(t) =>
            \A i, j \in DOMAIN redaction_rectangles[t] :
                i < j =>
                    \/ redaction_rectangles[t][i].page_number
                         < redaction_rectangles[t][j].page_number
                    \/ /\ redaction_rectangles[t][i].page_number
                            = redaction_rectangles[t][j].page_number
                       /\ pii_matches[t][i].ord < pii_matches[t][j].ord

\* C9 (amended): rectangle i is planned from match i of the list detect
\* returned, so the rectangles are ordered by confidence descending, then
\* page_number ascending, then x0 ascending, ties in scan order.
C9_PlanFollowsMatchOrder ==
    \A t \in Tasks :
        Planned(t) =>
            /\ Len(redaction_rectangles[t]) = Len(pii_matches[t])
            /\ \A i \in DOMAIN redaction_rectangles[t] :
                  /\ redaction_rectangles[t][i].page_number = pii_matches[t][i].page_number
                  /\ redaction_rectangles[t][i].original_text = pii_matches[t][i].text
                  /\ redaction_rectangles[t][i].pii_type = pii_matches[t][i].type
            /\ \A i, j \in DOMAIN redaction_rectangles[t] :
                  i < j => SortsBefore(pii_matches[t][i], pii_matches[t][j])

\* a plan whose first rectangle lies on a later page than its second
C9_Witness ==
    \E t \in Tasks :
        /\ Planned(t)
        /\ Len(redaction_rectangles[t]) >= 2
        /\ redaction_rectangles[t][1].page_number > redaction_rectangles[t][2].page_number
        /\ pii_matches[t][1].ord > pii_matches[t][2].ord

\* C10: detect on an encrypted document raises before any span is scanned:
\* no pattern is applied, and no match list or metadata is returned.
C10_EncryptedAborts ==
    \A t \in Tasks :
        (source[t].kind = "encrypted" /\ pc[t] \notin {"idle", "parse", "detect_open"}) =>
            /\ pc[t] = "detect_error"
            /\ scanned[t] = << >>
            /\ pii_matches[t] = << >>
            /\ metadata[t] = NoMetadata

\* detect was called on an encrypted document that holds text, and raised
C10_Witness ==
    \E t \in Tasks :
        /\ source[t].kind = "encrypted"
        /\ ScanPages(engine, source[t].pages, 1, << >>) # << >>
        /\ pc[t] = "detect_error"
        /\ handle[t] = "closed"

\* no page of the document holds a text span (image-only pages)
NoExtractableText(doc) == \A p \in DOMAIN doc.pages : doc.pages[p] = << >>

\* C11: a readable, unencrypted document whose pages yield no extractable
\* text is not an error: processing it gives an empty match set and a
\* stored result that is not FAILED.
C11_NoTextNotAnError ==
    \A t \in Tasks :
        ( /\ source[t].kind = "pdf"
          /\ NoExtractableText(source[t])
          /\ processing_result[t].made )
            => /\ Detected(t)
               /\ pii_matches[t] = << >>
               /\ processing_result[t].status # "FAILED"
               /\ processing_result[t].error_message = ""

\* C12: pipeline ordering.  Redact starts for a document only in the state
\* in which detect on that document has returned without an error and has
\* closed its handle (the phases do not overlap), and redact_pdf is called
\* with exactly the match list detect returned.
C12_RedactAfterDetect ==
    [][ \A t \in Tasks :
          (pc[t] # "redact_pages" /\ pc'[t] = "redact_pages") =>
              /\ pc[t] = "detected"
              /\ handle[t] = "closed"
              /\ ~Detect(engine, source[t]).error
              /\ metadata[t] = Detect(engine, source[t]).metadata
              /\ redact_input'[t] = Detect(engine, source[t]).pii_matches ]_vars

\* redact has started on a document with matches, with the list detect returned
C12_Witness ==
    \E t \in Tasks :
        /\ pc[t] = "redact_pages"
        /\ redact_input[t] # << >>
        /\ redact_input[t] = pii_matches[t]
        /\ metadata[t].total_matches = Len(redact_input[t])

\* C13: the original document is never mutated: no step of detect or of
\* redact, succeeding or failing, changes the file at the source path; what
\* redact writes goes to the file at the output path, and only in the step
\* that saves.
C13_SourceNeverMutated ==
    [][ \A t \in Tasks :
          /\ source'[t] = source[t]
          /\ output'[t] # output[t] =>
                (pc[t] = "redact_pages" /\ pc'[t] \in {"redacted", "redact_failed"}) ]_vars

\* redact succeeded and wrote redacted pages to the artifact, while the
\* source still holds the text that detect found
C13_Witness ==
    \E t \in Tasks :
        /\ pc[t] = "redacted"
        /\ applied[t] > 0
        /\ output[t].pages # source[t].pages
        /\ Detect(engine, source[t]).pii_matches = pii_matches[t]
        /\ pii_matches[t] # << >>

\* redact_pdf has returned for the task
RedactReturned(t) == pc[t] \in {"redact_failed", "redacted", "verified"}

\* the summary of an empty match list: no redaction, no type, no page
EmptySummary(summary) ==
    /\ summary.total_redactions = 0
    /\ DOMAIN summary.redactions_by_type = {}
    /\ DOMAIN summary.redactions_by_page = {}
    /\ summary.confidence_stats = [high |-> 0, medium |-> 0, low |-> 0]

DetectOver(t) == Detected(t) \/ pc[t] = "detect_error"

RedactedPages(pages, matches) ==
    [p \in DOMAIN pages |->
        LET page_redactions == PageRedactions(CreateRedactionPlan(matches), p - 1)
        IN  IF page_redactions # << >>
            THEN ApplyRedactions(pages[p], page_redactions) ELSE pages[p]]

\* C16: pipelines on independent documents do not interfere.  In every
\* interleaving of two runs sharing the one engine, each run's matches,
\* metadata, success flag and output artifact are those of the run alone (a
\* function of its own document, failures of the toolkit apart), and the
\* engine's pattern tables stay as constructed.
C16_NoInterference ==
    /\ engine = NewRedactor
    /\ \A t \in Tasks :
          LET alone == Detect(NewRedactor, source[t])
          IN  /\ pc[t] = "detect_error" => alone.error
              /\ Detected(t) =>
                    /\ ~alone.error
                    /\ pii_matches[t] = alone.pii_matches
                    /\ metadata[t] = alone.metadata
              /\ redaction_success[t] =>
                    output[t] = [kind |-> "pdf",
                                 pages |-> RedactedPages(source[t].pages, alone.pii_matches)]
              /\ ~redaction_success[t] => output[t] \in {Absent, Partial}

\* two runs on different documents with matches have both redacted
C16_Witness ==
    \E t, u \in Tasks :
        /\ source[t] # source[u]
        /\ pc[t] \in {"redacted", "verified"}
        /\ pc[u] \in {"redacted", "verified"}
        /\ pii_matches[t] # << >>
        /\ pii_matches[u] # << >>
        /\ output[t] # output[u]

\* the two offset ranges have no offset in common
DisjointHits(a, b) == a.end <= b.start \/ b.end <= a.start

\* a one-page document whose single span holds one email address and one
\* dashed SSN at disjoint offsets, no other PII and no blacklisted keyword
ScenarioOne(doc) ==
    /\ doc.kind = "pdf"
    /\ Len(doc.pages) = 1
    /\ Len(doc.pages[1]) = 1
    /\ LET text   == doc.pages[1][1].text
           emails == FindIter(EmailPattern, text)
           ssns   == HitsOf(SsnPatterns, 1, text)
       IN  /\ Len(emails) = 1
           /\ Len(ssns) = 1
           /\ ssns = FindIter(SsnPatterns[1], text)
           /\ DisjointHits(emails[1], ssns[1])
           /\ HitsOf(PhonePatterns, 1, text) = << >>
           /\ HitsOf(CreditCardPatterns, 1, text) = << >>
           /\ \A kw \in Blacklist : ~Contains(Lower(text), kw)

\* the email address and the SSN of such a document
ScenarioOneEmail(doc) ==
    LET text == doc.pages[1][1].text
        hit  == FindIter(EmailPattern, text)[1]
    IN  Slice(text, hit.start, hit.end)

ScenarioOneSsn(doc) ==
    LET text == doc.pages[1][1].text
        hit  == FindIter(SsnPatterns[1], text)[1]
    IN  Slice(text, hit.start, hit.end)

\* C17: Scenario 1, generalised.  A one-page document whose single span
\* holds one email address and one dashed SSN at disjoint offsets, with no
\* blacklisted keyword, yields exactly two retained matches, EMAIL with the
\* email text and SSN with the SSN text, and exactly two redaction
\* rectangles, labelled "[EMAIL REDACTED]" and "[SSN REDACTED]".
C17_ScenarioOne ==
    \A t \in Tasks :
        ScenarioOne(source[t]) =>
            /\ pc[t] # "detect_error"
            /\ Detected(t) =>
                  /\ Len(pii_matches[t]) = 2
                  /\ metadata[t].total_matches = 2
                  /\ { <<pii_matches[t][i].type, pii_matches[t][i].text>> :
                          i \in DOMAIN pii_matches[t] }
                       = { <<EMAIL, ScenarioOneEmail(source[t])>>,
                           <<SSN, ScenarioOneSsn(source[t])>> }
            /\ Planned(t) =>
                  /\ Len(redaction_rectangles[t]) = 2
                  /\ { <<redaction_rectangles[t][i].original_text,
                          redaction_rectangles[t][i].replacement_text>> :
                          i \in DOMAIN redaction_rectangles[t] }
                       = { <<ScenarioOneEmail(source[t]), "[EMAIL REDACTED]">>,
                           <<ScenarioOneSsn(source[t]), "[SSN REDACTED]">> }

\* the plan for "Contact us at help@example.com and SSN 123-45-6789" is made
C17_Witness ==
    \E t \in Tasks :
        /\ source[t].pages = << <<Span(TxtScenario1, 0, 0)>> >>
        /\ ScenarioOne(source[t])
        /\ Planned(t)
        /\ Len(redaction_rectangles[t]) = 2
        /\ ScenarioOneSsn(source[t]) = TxtSsn

\* the number of hits of all patterns of all types in a text
HitCount(text) ==
    Len(FindIter(EmailPattern, text)) + Len(HitsOf(SsnPatterns, 1, text))
    + Len(HitsOf(PhonePatterns, 1, text)) + Len(HitsOf(CreditCardPatterns, 1, text))

RECURSIVE PageHitCount(_, _)
PageHitCount(page, k) ==
    IF k > Len(page) THEN 0 ELSE HitCount(page[k].text) + PageHitCount(page, k + 1)

\* the match lies in a span of the page: the span's text holds the match's
\* text, the span's bbox holds the match's bbox
ProducedOn(m, page) ==
    \E k \in DOMAIN page :
        /\ Contains(page[k].text, m.text)
        /\ page[k].bbox.x0 <= m.bbox.x0 /\ m.bbox.x1 <= page[k].bbox.x1
        /\ page[k].bbox.y0 = m.bbox.y0 /\ page[k].bbox.y1 = m.bbox.y1

\* page k (counted from 1) is the only page with PII and holds a single
\* value, in a span with a proper bbox and no blacklisted keyword
OnlyPageWithPii(doc, k) ==
    /\ doc.kind = "pdf"
    /\ PageHitCount(doc.pages[k], 1) = 1
    /\ \A j \in DOMAIN doc.pages : j # k => PageHitCount(doc.pages[j], 1) = 0
    /\ \A i \in DOMAIN doc.pages[k] :
          /\ ~RectIsEmpty(doc.pages[k][i].bbox)
          /\ \A kw \in Blacklist : ~Contains(Lower(doc.pages[k][i].text), kw)

\* C18: every match detect returns carries as page_number the 0-based index
\* of the page whose span produced it; for an N-page document in which only
\* page k (counted from 1) holds a single PII value, detect returns
\* total_matches = 1 and the match has page_number = k - 1.
C18_PageIndex ==
    \A t \in Tasks :
        Detected(t) =>
            /\ \A i \in DOMAIN pii_matches[t] :
                  /\ pii_matches[t][i].page_number \in 0 .. Len(source[t].pages) - 1
                  /\ ProducedOn(pii_matches[t][i],
                                source[t].pages[pii_matches[t][i].page_number + 1])
            /\ \A k \in DOMAIN source[t].pages :
                  OnlyPageWithPii(source[t], k) =>
                      /\ metadata[t].total_matches = 1
                      /\ Len(pii_matches[t]) = 1
                      /\ pii_matches[t][1].page_number = k - 1

\* a document of several pages whose last page alone holds one PII value
C18_Witness ==
    \E t \in Tasks :
        /\ Detected(t)
        /\ Len(source[t].pages) >= 2
        /\ OnlyPageWithPii(source[t], Len(source[t].pages))
        /\ metadata[t].total_matches = 1
        /\ pii_matches[t][1].page_number = Len(source[t].pages) - 1

\* the text matches a false-positive structural pattern: a 3-2-3 digit
\* grouping, or the date shape D{1,2}-D{1,2}-YYYY
StructuralFalsePositive(text) ==
    \E i \in DOMAIN FalsePositivePatterns : Search(FalsePositivePatterns[i], text)

\* C19: structural false-positive rule.  A candidate whose matched text also
\* matches a false-positive structural pattern is rejected and is not in
\* detect's output; and a span that holds the 3-2-3 digit group
\* "123-45-678" (and no SSN) yields no retained SSN match.
C19_StructuralRejects ==
    \A t \in Tasks :
        Detected(t) =>
            /\ \A k \in DOMAIN scanned[t] :
                  StructuralFalsePositive(scanned[t][k].text) => ~InOutput(t, scanned[t][k])
            /\ source[t].pages = << <<Span(TxtScenario2, 0, 0)>> >> =>
                  \A i \in DOMAIN pii_matches[t] : pii_matches[t][i].type # SSN

\* the sum of the counts of a dict
RECURSIVE SumOf(_)
SumOf(counts) ==
    IF DOMAIN counts = {} THEN 0
    ELSE LET k == CHOOSE k \in DOMAIN counts : TRUE
         IN  counts[k] + SumOf([j \in DOMAIN counts \ {k} |-> counts[j]])

Deduplicated(t) == pc[t] = "deduplicated"

RedactedSome(t) == RedactReturned(t) /\ redact_input[t] # << >>

BlockedByRetained(t, a) ==
    \E k \in DOMAIN pii_matches[t] :
        LET u == pii_matches[t][k]
        IN  /\ u.ord # a.ord
            /\ (Lower(u.text) = Lower(a.text) \/ SamePageOverlap(u, a))

\* p is the beginning of q
IsPrefix(p, q) == Len(p) <= Len(q) /\ SubSeq(q, 1, Len(p)) = p

\* what the walk has accepted after n elements of the sorted list
AcceptedAfter(matches, n) ==
    DedupWalk(SubSeq(SortMatches(matches), 1, n), 1, << >>, {})

\* C24: greedy acceptance.  Deduplication drops an input match only if
\* another retained match has its lower-cased text or overlaps it on its
\* page; every other input match is in the result as it was given (the
\* result holds input matches only, each once); and what the walk has
\* accepted after any number of steps is the beginning of the result.
C24_GreedyAcceptance ==
    \A t \in Tasks :
        Deduplicated(t) =>
            /\ \A j \in DOMAIN raw_matches[t] :
                  \/ \E i \in DOMAIN pii_matches[t] : pii_matches[t][i] = raw_matches[t][j]
                  \/ BlockedByRetained(t, raw_matches[t][j])
            /\ \A i \in DOMAIN pii_matches[t] :
                  pii_matches[t][i] = raw_matches[t][pii_matches[t][i].ord]
            /\ \A i, k \in DOMAIN pii_matches[t] :
                  i # k => pii_matches[t][i].ord # pii_matches[t][k].ord
            /\ \A n \in 0 .. Len(raw_matches[t]) :
                  IsPrefix(AcceptedAfter(raw_matches[t], n), pii_matches[t])

\* of three given matches one is retained, one is dropped for its text only
\* (it lies on another page) and one for its overlap only (another text)
C24_Witness ==
    \E t \in Tasks :
        /\ Deduplicated(t)
        /\ Len(raw_matches[t]) = 3
        /\ Len(pii_matches[t]) = 1
        /\ \E j, k \in DOMAIN raw_matches[t] :
              LET u == pii_matches[t][1]
                  a == raw_matches[t][j]
                  b == raw_matches[t][k]
              IN  /\ ~Retained(t, a) /\ ~Retained(t, b)
                  /\ Lower(a.text) = Lower(u.text) /\ ~SamePageOverlap(u, a)
                  /\ Lower(b.text) # Lower(u.text) /\ SamePageOverlap(u, b)

\* the two matches have the same sort key
SameKey(a, b) ==
    /\ a.confidence = b.confidence
    /\ a.page_number = b.page_number
    /\ a.bbox.x0 = b.bbox.x0

\* C25: the match list detect returns is ordered by confidence descending,
\* then page_number ascending, then x0 ascending; matches with the same
\* three keys keep their scan order; and every returned match is a raw
\* match, so the list is a subsequence of the sorted raw list.
C25_ReturnedOrder ==
    \A t \in Tasks :
        Detected(t) =>
            /\ \A i, j \in DOMAIN pii_matches[t] :
                  i < j =>
                     LET a == pii_matches[t][i]
                         b == pii_matches[t][j]
                     IN  /\ a.confidence >= b.confidence
                         /\ a.confidence = b.confidence => a.page_number <= b.page_number
                         /\ (a.confidence = b.confidence /\ a.page_number = b.page_number)
                               => a.bbox.x0 <= b.bbox.x0
                         /\ SameKey(a, b) => a.ord < b.ord
            /\ \A i \in DOMAIN pii_matches[t] :
                  \E j \in DOMAIN raw_matches[t] : raw_matches[t][j] = pii_matches[t][i]

\* detect returned two matches with the same three keys, and two matches
\* whose scan order is the reverse of their order in the list
C25_Witness ==
    \E t \in Tasks :
        /\ Detected(t)
        /\ \E i, j \in DOMAIN pii_matches[t] :
              i < j /\ SameKey(pii_matches[t][i], pii_matches[t][j])
        /\ \E i, j \in DOMAIN pii_matches[t] :
              i < j /\ pii_matches[t][i].ord > pii_matches[t][j].ord

\* C26: in process_pdf_background, once detection has returned at least one
\* match and the result is stored, redact_pdf has been called with the
\* matches, and when it returned True the stored result has status COMPLETE
\* and carries the redaction (redaction_applied, the summary).
C26_RedactedPdfCreated ==
    \A t \in Tasks :
        (entry[t] = "process_pdf_background" /\ pii_matches[t] # << >>
         /\ processing_result[t].made) =>
            /\ RedactReturned(t)
            /\ redact_input[t] = pii_matches[t]
            /\ redaction_success[t] =>
                  /\ processing_result[t].status = "COMPLETE"
                  /\ processing_result[t].redaction_applied
                  /\ processing_result[t].redaction_summary.made

\* C27: a download endpoint answers 404 when the upload id is unknown or the
\* requested file does not exist.
C27_NotFoundIs404 ==
    \A t \in Tasks :
        (response[t].endpoint # "none"
         /\ (~response[t].found \/ ~response[t].file_exists)) =>
            response[t].status_code = 404

\* the metadata says what the match list holds and how many pages there are
MetadataAgrees(meta, matches, doc) ==
    /\ meta.total_matches = Len(matches)
    /\ SumOf(meta.matches_by_type) = meta.total_matches
    /\ DOMAIN meta.matches_by_type \subseteq RedactionType
    /\ \A ty \in RedactionType :
          CountOfType(meta.matches_by_type, ty) =
              Cardinality({ i \in DOMAIN matches : matches[i].type = ty })
    /\ meta.total_pages = Len(doc.pages)

\* C28: in every detect call that returned, on the source and on the
\* artifact, total_matches is the length of the returned list, the counts
\* of matches_by_type are the numbers of returned matches of each type and
\* sum to total_matches, and total_pages is the document's page count.
C28_MetadataConsistent ==
    \A t \in Tasks :
        /\ Detected(t) => MetadataAgrees(metadata[t], pii_matches[t], source[t])
        /\ (pc[t] = "verified" /\ ~artifact_matches[t].error) =>
              MetadataAgrees(artifact_matches[t].metadata,
                             artifact_matches[t].pii_matches, output[t])

\* detect returned three or more matches of two or more types, two of them
\* of one type
C28_Witness ==
    \E t \in Tasks :
        /\ pc[t] = "detected"
        /\ metadata[t].total_matches >= 3
        /\ Cardinality(DOMAIN metadata[t].matches_by_type) >= 2
        /\ \E ty \in DOMAIN metadata[t].matches_by_type :
              metadata[t].matches_by_type[ty] >= 2

\* C29: when redact_pdf has returned True, every planned rectangle lies on
\* a page of the document and was burned in: the number of rectangles
\* burned in is the length of the plan and the total_redactions of the
\* summary of the same match list.
C29_AllPlannedApplied ==
    \A t \in Tasks :
        redaction_success[t] =>
            /\ \A i \in DOMAIN redaction_rectangles[t] :
                  redaction_rectangles[t][i].page_number \in 0 .. Len(source[t].pages) - 1
            /\ applied[t] = Len(redaction_rectangles[t])
            /\ redaction_summary[t].made =>
                  applied[t] = redaction_summary[t].total_redactions

\* detect or redact_pdf has returned or raised and no call is under way
CallOver(t) ==
    pc[t] \in {"detected", "detect_error", "redact_failed", "redacted", "verified"}

\* C30: when a call of detect or redact_pdf has returned or raised, on the
\* success path and on every failure path, the document handle it opened
\* is closed.
C30_HandleClosedOnReturn ==
    \A t \in Tasks : CallOver(t) => handle[t] # "open"

====
